---- MODULE Spec2Model ----
(***************************************************************************)
(* A model of package response (src/response/response.go): the helpers     *)
(* that bootstrap a RunFunctionResponse from a RunFunctionRequest and      *)
(* fill in its context, desired state, requirements and results.           *)
(*                                                                         *)
(* Go pointers are modelled as addresses into two heaps (one of            *)
(* *v1beta1.State, one of *structpb.Struct), because To hands the          *)
(* request's own pointers to the response.  A Go value that may be nil     *)
(* (a map, a slice, a pointer to a message that is never shared) is a      *)
(* sequence of length at most one: None is nil, Some(x) is non-nil.        *)
(***************************************************************************)
EXTENDS Integers, Sequences, FiniteSets, TLC

VARIABLES
    req,      \* the RunFunctionRequest: meta, and the addresses of desired and context
    states,   \* heap of v1beta1.State objects, indexed by address 1..Len(states)
    structs,  \* heap of structpb.Struct objects, indexed by address 1..Len(structs)
    rsp,      \* None before To has run, Some(RunFunctionResponse) after
    last,     \* the call that ran last: its name and the error it returned
    prev,     \* the call that ran before it
    calls,    \* number of mutator calls made on the response
    pc,       \* SpecConc: each goroutine's position inside SetContextKey
    loc,      \* SpecConc: each goroutine's arguments and locals
    crashed,  \* SpecConc: the Go runtime aborted with "concurrent map writes"
    overlap   \* SpecConc: some call started while another was in progress

vars == <<req, states, structs, rsp, last, prev, calls, pc, loc, crashed, overlap>>

concVars == <<pc, loc, crashed, overlap>>

-----------------------------------------------------------------------------
(* Bounds of the model *)

\* mutator calls made on one response
MaxCalls == 2

-----------------------------------------------------------------------------
(* nil-able values and maps *)

None == <<>>
Some(x) == <<x>>

EmptyMap == [k \in {} |-> k]

\* m[k] = v on a Go map held by value
MapSet(m, k, v) == (k :> v) @@ m

\* the nil pointer
NilAddr == 0

NoErr == ""

-----------------------------------------------------------------------------
(* Input domains *)

Keys == {"k1", "k2"}
Values == {"v1", "v2"}
Names == {"n1", "n2"}
IDs == {"", "a", "b"}
ResourceNames == {"", "my-resource"}
LabelSets == {EmptyMap, [l \in {"app"} |-> "web"]}
Messages == {"did a thing"}

\* schema.GroupVersionKind values: the zero GVK, a core-group kind (the
\* group of core kinds is the empty string), a fully specified kind
GVKs ==
    { [Group |-> "", Version |-> "", Kind |-> ""],
      [Group |-> "", Version |-> "v1", Kind |-> "ConfigMap"],
      [Group |-> "example.org", Version |-> "v1", Kind |-> "Widget"] }

\* time.Duration values, in nanoseconds
TTLs == {1500000000, -1500000000}

\* Resource bodies (runtime.Object): field -> Go value.  A value of Go type
\* chan cannot be marshalled to JSON.
GoodBody1 == [f \in {"kind"} |-> [t |-> "string", v |-> "Widget"]]
GoodBody2 == [f \in {"kind", "size"} |->
                IF f = "kind" THEN [t |-> "string", v |-> "Gadget"]
                              ELSE [t |-> "int", v |-> "3"]]
BadBody == [f \in {"kind"} |-> [t |-> "chan", v |-> ""]]

ConnectionDetails == {[c \in {"user"} |-> "alice"], [c \in {"user"} |-> "bob"]}

-----------------------------------------------------------------------------
(* Conversions the helpers call *)

NanosPerSecond == 1000000000

\* Go's integer division truncates toward zero
Quot(a, b) == IF a >= 0 THEN a \div b ELSE -((-a) \div b)

\* durationpb.New(d): whole seconds and the remaining nanoseconds
DurationNew(d) ==
    LET secs == Quot(d, NanosPerSecond)
    IN [Seconds |-> secs, Nanos |-> d - secs * NanosPerSecond]

\* (*durationpb.Duration).AsDuration, the reading of the ttl field
AsDuration(x) == x.Seconds * NanosPerSecond + x.Nanos

\* a GVK check that wants every one of group, version and kind
GVKAnyEmpty(gvk) == gvk.Group = "" \/ gvk.Version = "" \/ gvk.Kind = ""

\* GroupVersionKind.Empty(): all three of group, version and kind are empty
GVKEmpty(gvk) == gvk.Group = "" /\ gvk.Version = "" /\ gvk.Kind = ""

\* gvk.GroupVersion().String(): "group/version", or "version" for the core group
GroupVersionString(gvk) ==
    IF gvk.Group # "" THEN gvk.Group \o "/" \o gvk.Version ELSE gvk.Version

\* errors.Wrapf(err, ...): nil for a nil err, else the message before the cause
Wrapf(err, msg) == IF err = NoErr THEN NoErr ELSE msg \o ": " \o err

\* one Go value as a structpb.Value
ToValue(gv) ==
    IF gv.t = "string" THEN [kind |-> "string_value", v |-> gv.v]
                       ELSE [kind |-> "number_value", v |-> gv.v]

\* resource.AsStruct(o): the body as a structpb.Struct, or nil and an error
\* when the body cannot be marshalled
AsStruct(body) ==
    IF \E f \in DOMAIN body : body[f].t = "chan"
    THEN [s |-> None, err |-> "cannot marshal to JSON: unsupported type: chan"]
    ELSE [s |-> Some([fields |-> [f \in DOMAIN body |-> ToValue(body[f])]]),
          err |-> NoErr]

\* the switch on dcd.Ready; r.Ready keeps its zero value when no case matches
ReadyOf(ready) ==
    CASE ready = "Unspecified" -> "READY_UNSPECIFIED"
      [] ready = "False" -> "READY_FALSE"
      [] ready = "True" -> "READY_TRUE"
      [] OTHER -> "READY_UNSPECIFIED"

\* fmt.Sprintf over a format split into literals and %s verbs
RECURSIVE Sprintf(_, _)
Sprintf(format, a) ==
    IF format = <<>>
    THEN IF a = <<>> THEN "" ELSE "%!(EXTRA string=" \o a[1] \o ")"
    ELSE IF Head(format) = "%s"
         THEN IF a = <<>>
              THEN "%!s(MISSING)" \o Sprintf(Tail(format), a)
              ELSE a[1] \o Sprintf(Tail(format), Tail(a))
         ELSE Head(format) \o Sprintf(Tail(format), a)

\* err.Error()
ErrorString(err) == err.s

-----------------------------------------------------------------------------
(* More input domains *)

\* resource.Composite values
Composites == [Resource : {GoodBody1, BadBody}, ConnectionDetails : ConnectionDetails]

\* resource.DesiredComposed values
DesiredComposeds ==
    { [Resource |-> GoodBody1, Ready |-> "True"],
      [Resource |-> GoodBody2, Ready |-> "Unspecified"],
      [Resource |-> BadBody, Ready |-> "False"] }

\* map[resource.Name]*resource.DesiredComposed values
DCDMaps == UNION {[D -> DesiredComposeds] : D \in SUBSET Names}

\* the orders in which a range over m can visit its keys
RangeOrders(m) ==
    LET n == Cardinality(DOMAIN m)
    IN {o \in [1..n -> DOMAIN m] : \A i, j \in 1..n : o[i] = o[j] => i = j}

\* the calls of SetDesiredComposedResources: an input and the order in which
\* the range loop visits it
DCDCalls == UNION {{[dcds |-> m, order |-> o] : o \in RangeOrders(m)} : m \in DCDMaps}

GoErrors == {[s |-> "boom"]}
Formats == {<<"did ", "%s">>, <<"%s", "%s">>}
FormatArgs == {<<>>, <<"a thing">>}

\* v1beta1.Resource values a request can carry
InComposite ==
    [resource |-> AsStruct(GoodBody2).s,
     connectionDetails |-> Some([c \in {"user"} |-> "carol"]),
     ready |-> "READY_UNSPECIFIED"]
InComposed ==
    [resource |-> AsStruct(GoodBody2).s, connectionDetails |-> None, ready |-> "READY_FALSE"]

\* what a request's desired pointer and context pointer can point at
EmptyState == [composite |-> None, resources |-> None]
FullState ==
    [composite |-> Some(InComposite), resources |-> Some([n \in {"n1"} |-> InComposed])]
FullContext == [fields |-> Some([k \in {"k1"} |-> "v0"])]

\* the requests: nothing set; the messages present and empty; everything
\* set; a context alone.  None is a nil pointer.
Requests ==
    { [meta |-> None, desired |-> None, context |-> None],
      [meta |-> Some([tag |-> "abc"]), desired |-> Some(EmptyState),
       context |-> Some([fields |-> None])],
      [meta |-> Some([tag |-> "abc"]), desired |-> Some(FullState),
       context |-> Some(FullContext)],
      [meta |-> None, desired |-> None, context |-> Some(FullContext)] }

-----------------------------------------------------------------------------
(* Getters of the generated messages: each is safe on a nil receiver *)

\* req.GetMeta().GetTag()
GetTag(meta) == IF meta = None THEN "" ELSE meta[1].tag

\* GetContext().GetFields() of a message whose context pointer is addr
GetFields(heap, addr) == IF addr = NilAddr THEN None ELSE heap[addr].fields

\* GetDesired().GetResources() of a message whose desired pointer is addr
GetResources(heap, addr) == IF addr = NilAddr THEN None ELSE heap[addr].resources

\* GetDesired().GetComposite()
GetComposite(heap, addr) == IF addr = NilAddr THEN None ELSE heap[addr].composite

\* GetRequirements().GetExtraResources()
GetExtraResources(r) ==
    IF r.requirements = None THEN None ELSE r.requirements[1].extraResources

\* the conditions under which a helper allocates a container
\* a context check that allocates the fields map on every call
ContextFieldsNilAlways(heap, r) == TRUE
ContextFieldsNil(heap, r) == GetFields(heap, r.context) = None
DesiredNil(r) == r.desired = NilAddr
\* a resources check that allocates the map on every call
ResourcesNilAlways(heap, addr) == TRUE
ResourcesNil(heap, addr) == GetResources(heap, addr) = None
RequirementsNil(r) == r.requirements = None
ExtraResourcesNil(r) == GetExtraResources(r) = None
\* a results check that allocates the slice on every call
ResultsNilAlways(r) == TRUE
ResultsNil(r) == r.results = None

-----------------------------------------------------------------------------
(* The initial state: a request, and no response yet *)

Procs == {1, 2}

InitConc ==
    /\ pc = [p \in Procs |-> "idle"]
    /\ loc = [p \in Procs |-> [key |-> "", v |-> "", isNil |-> FALSE, ptr |-> NilAddr]]
    /\ crashed = FALSE
    /\ overlap = FALSE

Init ==
    /\ \E r \in Requests :
         \* each heap holds the one object of the request, if there is one
         /\ states = r.desired
         /\ structs = r.context
         /\ req = [meta |-> r.meta,
                   desired |-> IF r.desired = None THEN NilAddr ELSE 1,
                   context |-> IF r.context = None THEN NilAddr ELSE 1]
    /\ rsp = None
    /\ last = [op |-> "", err |-> NoErr]
    /\ prev = [op |-> "", err |-> NoErr]
    /\ calls = 0
    /\ InitConc

-----------------------------------------------------------------------------
(* To *)

\* To without the request's context
ToWithoutContext(ttl) ==
    /\ rsp = None
    /\ rsp' = Some([meta |-> [tag |-> GetTag(req.meta), ttl |-> DurationNew(ttl)],
                    desired |-> req.desired,
                    context |-> NilAddr,
                    requirements |-> None,
                    results |-> None])
    /\ last' = [op |-> "To", err |-> NoErr]
    /\ prev' = last
    /\ UNCHANGED <<req, states, structs, calls>>
    /\ UNCHANGED concVars

To(ttl) ==
    /\ rsp = None
    /\ rsp' = Some([meta |-> [tag |-> GetTag(req.meta), ttl |-> DurationNew(ttl)],
                    desired |-> req.desired,
                    context |-> req.context,
                    requirements |-> None,
                    results |-> None])
    /\ last' = [op |-> "To", err |-> NoErr]
    /\ prev' = last
    /\ UNCHANGED <<req, states, structs, calls>>
    /\ UNCHANGED concVars

\* a helper can be called on the response once it exists
CanCall == rsp # None /\ calls < MaxCalls

Called(op, err) ==
    /\ last' = [op |-> op, err |-> err]
    /\ prev' = last
    /\ calls' = calls + 1
    /\ UNCHANGED req
    /\ UNCHANGED concVars

-----------------------------------------------------------------------------
(* SetContextKey *)

\* the heap and the context pointer once the fields map exists
EnsureContext(heap, r) ==
    IF ContextFieldsNil(heap, r)
    THEN [heap |-> Append(heap, [fields |-> Some(EmptyMap)]), addr |-> Len(heap) + 1]
    ELSE [heap |-> heap, addr |-> r.context]

SetContextKey(key, v) ==
    /\ CanCall
    /\ LET r == rsp[1]
           e == EnsureContext(structs, r)
       IN /\ structs' = [e.heap EXCEPT ![e.addr].fields = Some(MapSet(@[1], key, v))]
          /\ rsp' = Some([r EXCEPT !.context = e.addr])
    /\ Called("SetContextKey", NoErr)
    /\ UNCHANGED states

-----------------------------------------------------------------------------
(* SetDesiredCompositeResource, SetDesiredComposedResources *)

\* the heap and the desired pointer once the State exists
EnsureDesired(heap, r) ==
    IF DesiredNil(r)
    THEN [heap |-> Append(heap, [composite |-> None, resources |-> None]),
          addr |-> Len(heap) + 1]
    ELSE [heap |-> heap, addr |-> r.desired]

SetDesiredCompositeResource(xr) ==
    /\ CanCall
    /\ LET r == rsp[1]
           e == EnsureDesired(states, r)
           c == AsStruct(xr.Resource)
       IN /\ states' = [e.heap EXCEPT ![e.addr].composite =
                           Some([resource |-> c.s,
                                 connectionDetails |-> Some(xr.ConnectionDetails),
                                 ready |-> "READY_UNSPECIFIED"])]
          /\ rsp' = Some([r EXCEPT !.desired = e.addr])
          /\ Called("SetDesiredCompositeResource",
                    Wrapf(c.err, "cannot convert *composite.Unstructured to desired composite resource"))
    /\ UNCHANGED structs

\* the range loop going on to the next entry after a failed conversion
RECURSIVE RangeDCDsSkipFailed(_, _, _, _)
RangeDCDsSkipFailed(resources, dcds, order, i) ==
    IF i > Len(order)
    THEN [resources |-> resources, err |-> NoErr]
    ELSE LET name == order[i]
             dcd == dcds[name]
             c == AsStruct(dcd.Resource)
             rest == RangeDCDsSkipFailed(
                        IF c.err # NoErr THEN resources
                        ELSE MapSet(resources, name,
                                    [resource |-> c.s,
                                     connectionDetails |-> None,
                                     ready |-> ReadyOf(dcd.Ready)]),
                        dcds, order, i + 1)
         IN IF c.err # NoErr THEN [resources |-> rest.resources, err |-> c.err]
            ELSE rest

\* the body of the range loop, from the i-th key of order on: the resources
\* map and the error the loop ends with
RECURSIVE RangeDCDs(_, _, _, _)
RangeDCDs(resources, dcds, order, i) ==
    IF i > Len(order)
    THEN [resources |-> resources, err |-> NoErr]
    ELSE LET name == order[i]
             dcd == dcds[name]
             c == AsStruct(dcd.Resource)
         IN IF c.err # NoErr
            THEN [resources |-> resources, err |-> c.err]
            ELSE RangeDCDs(MapSet(resources, name,
                                  [resource |-> c.s,
                                   connectionDetails |-> None,
                                   ready |-> ReadyOf(dcd.Ready)]),
                           dcds, order, i + 1)

SetDesiredComposedResources(dcds, order) ==
    /\ CanCall
    /\ LET r == rsp[1]
           e == EnsureDesired(states, r)
           before == IF ResourcesNil(e.heap, e.addr) THEN EmptyMap
                     ELSE e.heap[e.addr].resources[1]
           out == RangeDCDs(before, dcds, order, 1)
       IN /\ states' = [e.heap EXCEPT ![e.addr].resources = Some(out.resources)]
          /\ rsp' = Some([r EXCEPT !.desired = e.addr])
          /\ Called("SetDesiredComposedResources", out.err)
    /\ UNCHANGED structs

-----------------------------------------------------------------------------
(* RequestExtraResourceByName, RequestExtraResourceByLabels *)

\* the early returns of RequestExtraResourceByName
ByNameError(id, name, gvk) ==
    IF GVKEmpty(gvk) THEN "cannot request extra resource by name with empty GVK"
    ELSE IF id = "" THEN "cannot request extra resource by name with empty ID"
    ELSE IF name = "" THEN "cannot request extra resource by empty name with empty name"
    ELSE NoErr

\* the early returns of RequestExtraResourceByLabels
ByLabelsError(id, gvk) ==
    IF GVKEmpty(gvk) THEN "cannot request extra resource by name with empty GVK"
    ELSE IF id = "" THEN "cannot request extra resource by name with empty ID"
    ELSE NoErr

\* the response's requirements once Requirements and its map exist
EnsureRequirements(r) ==
    LET r1 == IF RequirementsNil(r)
              THEN [r EXCEPT !.requirements = Some([extraResources |-> None])]
              ELSE r
    IN IF ExtraResourcesNil(r1)
       THEN [r1 EXCEPT !.requirements = Some([extraResources |-> Some(EmptyMap)])]
       ELSE r1

\* the v1beta1.ResourceSelector literals; Match is a oneof
NameSelector(name, gvk) ==
    [apiVersion |-> GroupVersionString(gvk),
     kind |-> gvk.Kind,
     matchName |-> Some(name),
     matchLabels |-> None]

LabelsSelector(labels, gvk) ==
    [apiVersion |-> GroupVersionString(gvk),
     kind |-> gvk.Kind,
     matchName |-> None,
     matchLabels |-> Some([labels |-> labels])]

\* a write that fills in the selector already registered under id
MergeExtraResource(r, id, sel) ==
    LET r1 == EnsureRequirements(r)
        m == r1.requirements[1].extraResources[1]
        old == IF id \in DOMAIN m THEN m[id] ELSE sel
        new == [sel EXCEPT !.matchName = IF @ = None THEN old.matchName ELSE @,
                           !.matchLabels = IF @ = None THEN old.matchLabels ELSE @]
    IN [r1 EXCEPT !.requirements = Some([extraResources |-> Some(MapSet(m, id, new))])]

\* rsp.Requirements.ExtraResources[id] = sel
SetExtraResource(r, id, sel) ==
    LET r1 == EnsureRequirements(r)
    IN [r1 EXCEPT !.requirements =
           Some([extraResources |-> Some(MapSet(r1.requirements[1].extraResources[1], id, sel))])]

\* RequestExtraResourceByName with the containers allocated before the checks
RequestExtraResourceByNameAllocFirst(id, name, gvk) ==
    /\ CanCall
    /\ LET err == ByNameError(id, name, gvk)
       IN /\ rsp' = IF err # NoErr THEN Some(EnsureRequirements(rsp[1]))
                    ELSE Some(SetExtraResource(rsp[1], id, NameSelector(name, gvk)))
          /\ Called("RequestExtraResourceByName", err)
    /\ UNCHANGED <<states, structs>>

RequestExtraResourceByName(id, name, gvk) ==
    /\ CanCall
    /\ LET err == ByNameError(id, name, gvk)
       IN /\ rsp' = IF err # NoErr THEN rsp
                    ELSE Some(SetExtraResource(rsp[1], id, NameSelector(name, gvk)))
          /\ Called("RequestExtraResourceByName", err)
    /\ UNCHANGED <<states, structs>>

RequestExtraResourceByLabels(id, labels, gvk) ==
    /\ CanCall
    /\ LET err == ByLabelsError(id, gvk)
       IN /\ rsp' = IF err # NoErr THEN rsp
                    ELSE Some(SetExtraResource(rsp[1], id, LabelsSelector(labels, gvk)))
          /\ Called("RequestExtraResourceByLabels", err)
    /\ UNCHANGED <<states, structs>>

-----------------------------------------------------------------------------
(* Fatal, Warning, Normal, Normalf *)

\* rsp.Results = append(rsp.GetResults(), &v1beta1.Result{...})
AppendResult(r, severity, message) ==
    LET results == IF ResultsNil(r) THEN <<>> ELSE r.results[1]
    IN [r EXCEPT !.results =
           Some(Append(results, [severity |-> severity, message |-> message]))]

Fatal(err) ==
    /\ CanCall
    /\ rsp' = Some(AppendResult(rsp[1], "SEVERITY_FATAL", ErrorString(err)))
    /\ Called("Fatal", NoErr)
    /\ UNCHANGED <<states, structs>>

Warning(err) ==
    /\ CanCall
    /\ rsp' = Some(AppendResult(rsp[1], "SEVERITY_WARNING", ErrorString(err)))
    /\ Called("Warning", NoErr)
    /\ UNCHANGED <<states, structs>>

\* the body of Normal, which Normalf calls too
NormalResult(r, message) == AppendResult(r, "SEVERITY_NORMAL", message)

Normal(message) ==
    /\ CanCall
    /\ rsp' = Some(NormalResult(rsp[1], message))
    /\ Called("Normal", NoErr)
    /\ UNCHANGED <<states, structs>>

Normalf(format, a) ==
    /\ CanCall
    /\ rsp' = Some(NormalResult(rsp[1], Sprintf(format, a)))
    /\ Called("Normalf", NoErr)
    /\ UNCHANGED <<states, structs>>

-----------------------------------------------------------------------------
(* A single caller: To, then the helpers one call after the other *)

Next ==
    \/ \E ttl \in TTLs : To(ttl)
    \/ \E key \in Keys, v \in Values : SetContextKey(key, v)
    \/ \E xr \in Composites : SetDesiredCompositeResource(xr)
    \/ \E c \in DCDCalls : SetDesiredComposedResources(c.dcds, c.order)
    \/ \E id \in IDs, name \in ResourceNames, gvk \in GVKs :
          RequestExtraResourceByName(id, name, gvk)
    \/ \E id \in IDs, labels \in LabelSets, gvk \in GVKs :
          RequestExtraResourceByLabels(id, labels, gvk)
    \/ \E err \in GoErrors : Fatal(err)
    \/ \E err \in GoErrors : Warning(err)
    \/ \E message \in Messages : Normal(message)
    \/ \E format \in Formats, a \in FormatArgs : Normalf(format, a)

Spec == Init /\ [][Next]_vars

-----------------------------------------------------------------------------
(* Two goroutines calling SetContextKey on one response with no lock.      *)
(* Each statement of SetContextKey is split into its reads and writes of   *)
(* the shared response: the nil check (line 51), the allocation and the    *)
(* store of the new pointer (line 52), the load of rsp.Context and the map *)
(* assignment (line 54).  Two map assignments in progress on one map are a *)
(* data race: the runtime may abort with "concurrent map writes", or both  *)
(* may go on, and then a write may be lost.                                *)

Running(p) == pc[p] \notin {"idle", "done"}

ConcStep(p, to) ==
    /\ pc' = [pc EXCEPT ![p] = to]
    /\ UNCHANGED <<req, states, last, prev, calls, crashed>>

\* goroutine p enters SetContextKey(rsp, key, v)
Call(p, key, v) ==
    /\ rsp # None /\ ~crashed
    /\ pc[p] = "idle"
    /\ loc' = [loc EXCEPT ![p].key = key, ![p].v = v]
    /\ overlap' = (overlap \/ \E q \in Procs \ {p} : Running(q))
    /\ ConcStep(p, "check")
    /\ UNCHANGED <<rsp, structs>>

\* line 51: rsp.GetContext().GetFields() == nil
CheckNil(p) ==
    /\ ~crashed
    /\ pc[p] = "check"
    /\ LET isNil == ContextFieldsNil(structs, rsp[1])
       IN /\ loc' = [loc EXCEPT ![p].isNil = isNil]
          /\ ConcStep(p, IF isNil THEN "alloc" ELSE "load")
    /\ UNCHANGED <<rsp, structs, overlap>>

\* line 52: rsp.Context = &structpb.Struct{Fields: make(...)}
AllocContext(p) ==
    /\ ~crashed
    /\ pc[p] = "alloc"
    /\ structs' = Append(structs, [fields |-> Some(EmptyMap)])
    /\ rsp' = Some([rsp[1] EXCEPT !.context = Len(structs) + 1])
    /\ ConcStep(p, "load")
    /\ UNCHANGED <<loc, overlap>>

\* line 54: the load of rsp.Context
LoadContext(p) ==
    /\ ~crashed
    /\ pc[p] = "load"
    /\ loc' = [loc EXCEPT ![p].ptr = rsp[1].context]
    /\ ConcStep(p, "write")
    /\ UNCHANGED <<rsp, structs, overlap>>

\* another goroutine is inside a map assignment on the map p writes
Racing(p) == \E q \in Procs \ {p} : pc[q] = "writing" /\ loc[q].ptr = loc[p].ptr

\* line 54: the map assignment begins
MapAssignBegin(p) ==
    /\ ~crashed
    /\ pc[p] = "write"
    /\ ConcStep(p, "writing")
    /\ UNCHANGED <<rsp, structs, loc, overlap>>

\* the runtime sees two writers on one map: fatal error, the process ends
ConcurrentMapWrites(p) ==
    /\ ~crashed
    /\ pc[p] \in {"write", "writing"}
    /\ Racing(p)
    /\ crashed' = TRUE
    /\ UNCHANGED <<req, states, structs, rsp, last, prev, calls, pc, loc, overlap>>

\* line 54: the map assignment ends; a racing write may be lost
MapAssignEnd(p) ==
    /\ ~crashed
    /\ pc[p] = "writing"
    /\ \E lost \in (IF Racing(p) THEN {TRUE, FALSE} ELSE {FALSE}) :
          structs' = IF lost THEN structs
                     ELSE [structs EXCEPT ![loc[p].ptr].fields =
                              Some(MapSet(@[1], loc[p].key, loc[p].v))]
    /\ ConcStep(p, "done")
    /\ UNCHANGED <<rsp, loc, overlap>>

NextConc ==
    \/ \E ttl \in TTLs : To(ttl)
    \/ \E p \in Procs, key \in Keys, v \in Values : Call(p, key, v)
    \/ \E p \in Procs : CheckNil(p)
    \/ \E p \in Procs : AllocContext(p)
    \/ \E p \in Procs : LoadContext(p)
    \/ \E p \in Procs : MapAssignBegin(p)
    \/ \E p \in Procs : ConcurrentMapWrites(p)
    \/ \E p \in Procs : MapAssignEnd(p)

SpecConc == Init /\ [][NextConc]_vars

-----------------------------------------------------------------------------
(* What a reader of the request and of the response sees *)

\* the entries of a map that may be nil
Entries(opt) == IF opt = None THEN EmptyMap ELSE opt[1]

ResponseFields == IF rsp = None THEN None ELSE GetFields(structs, rsp[1].context)
ResponseComposite == IF rsp = None THEN None ELSE GetComposite(states, rsp[1].desired)
ResponseResources == IF rsp = None THEN None ELSE GetResources(states, rsp[1].desired)
ResponseRequirements == IF rsp = None THEN None ELSE rsp[1].requirements
ResponseExtraResources == IF rsp = None THEN None ELSE GetExtraResources(rsp[1])
ResponseResults == IF rsp = None THEN None ELSE rsp[1].results

RequestFields == GetFields(structs, req.context)
RequestComposite == GetComposite(states, req.desired)
RequestResources == GetResources(states, req.desired)

RequestExtraOps == {"RequestExtraResourceByName", "RequestExtraResourceByLabels"}

-----------------------------------------------------------------------------
(* C1 *)

\* C1: a RequestExtraResourceByName or RequestExtraResourceByLabels call
\* whose GVK is empty, whose id is empty or (ByName) whose name is empty
\* returns an error and leaves the requirements section as it was: absent
\* stays absent, and the same ids map to the same selectors.
C1_RejectedRequestLeavesRequirements ==
    [][/\ \A id \in IDs, gvk \in GVKs, name \in ResourceNames :
            (/\ last'.op = "RequestExtraResourceByName"
             /\ GVKEmpty(gvk) \/ id = "" \/ name = ""
             /\ RequestExtraResourceByName(id, name, gvk))
            => /\ last'.err # NoErr
               /\ ResponseRequirements' = ResponseRequirements
       /\ \A id \in IDs, gvk \in GVKs, labels \in LabelSets :
            (/\ last'.op = "RequestExtraResourceByLabels"
             /\ GVKEmpty(gvk) \/ id = ""
             /\ RequestExtraResourceByLabels(id, labels, gvk))
            => /\ last'.err # NoErr
               /\ ResponseRequirements' = ResponseRequirements
       /\ (last'.op \in RequestExtraOps /\ calls' = calls + 1 /\ last'.err # NoErr)
            => ResponseRequirements' = ResponseRequirements
      ]_vars

\* a call was rejected on a response that already held a selector
C1_Witness ==
    /\ last.op = "RequestExtraResourceByName"
    /\ last.err = "cannot request extra resource by name with empty ID"
    /\ prev.op \in RequestExtraOps /\ prev.err = NoErr
    /\ DOMAIN Entries(ResponseExtraResources) # {}

-----------------------------------------------------------------------------
(* C2 *)

\* the selector is registered from a GVK that is not wholly empty
FromNonEmptyGVK(sel) == sel.apiVersion # "" \/ sel.kind # ""

\* C2 as stated: a call whose GVK has any one of group, version or kind
\* empty returns a validation error and registers no selector.
C2_AnyEmptyPartRejected ==
    [][/\ \A id \in IDs, gvk \in GVKs, name \in ResourceNames :
            (/\ last'.op = "RequestExtraResourceByName"
             /\ gvk.Group = "" \/ gvk.Version = "" \/ gvk.Kind = ""
             /\ RequestExtraResourceByName(id, name, gvk))
            => /\ last'.err # NoErr
               /\ ResponseRequirements' = ResponseRequirements
       /\ \A id \in IDs, gvk \in GVKs, labels \in LabelSets :
            (/\ last'.op = "RequestExtraResourceByLabels"
             /\ gvk.Group = "" \/ gvk.Version = "" \/ gvk.Kind = ""
             /\ RequestExtraResourceByLabels(id, labels, gvk))
            => /\ last'.err # NoErr
               /\ ResponseRequirements' = ResponseRequirements
      ]_vars

\* C2 amended: a call whose GVK has group, version and kind all empty
\* returns a validation error and registers no selector; a GVK with at
\* least one of the three non-empty passes the GVK check (the call
\* succeeds when its id, and for ByName its name, are non-empty); so every
\* stored selector has a non-empty apiVersion or a non-empty kind.
C2_WhollyEmptyGVKRejected ==
    [][/\ \A id \in IDs, gvk \in GVKs, name \in ResourceNames :
            (/\ last'.op = "RequestExtraResourceByName"
             /\ RequestExtraResourceByName(id, name, gvk))
            => IF gvk.Group = "" /\ gvk.Version = "" /\ gvk.Kind = ""
               THEN /\ last'.err # NoErr
                    /\ ResponseRequirements' = ResponseRequirements
               ELSE (id # "" /\ name # "") => last'.err = NoErr
       /\ \A id \in IDs, gvk \in GVKs, labels \in LabelSets :
            (/\ last'.op = "RequestExtraResourceByLabels"
             /\ RequestExtraResourceByLabels(id, labels, gvk))
            => IF gvk.Group = "" /\ gvk.Version = "" /\ gvk.Kind = ""
               THEN /\ last'.err # NoErr
                    /\ ResponseRequirements' = ResponseRequirements
               ELSE id # "" => last'.err = NoErr
       /\ \A id \in DOMAIN Entries(ResponseExtraResources') :
            FromNonEmptyGVK(Entries(ResponseExtraResources')[id])
      ]_vars

\* a selector of a core-group kind, whose group is empty, is registered
C2_Witness ==
    /\ last.op \in RequestExtraOps
    /\ last.err = NoErr
    /\ \E id \in DOMAIN Entries(ResponseExtraResources) :
          /\ Entries(ResponseExtraResources)[id].apiVersion = "v1"
          /\ Entries(ResponseExtraResources)[id].kind = "ConfigMap"

-----------------------------------------------------------------------------
(* C3 *)

\* what fmt.Sprintf prints for the formats and arguments of the model
Formatted(format, a) ==
    CASE format = <<"did ", "%s">> /\ a = <<>> -> "did %!s(MISSING)"
      [] format = <<"did ", "%s">> /\ a = <<"a thing">> -> "did a thing"
      [] format = <<"%s", "%s">> /\ a = <<>> -> "%!s(MISSING)%!s(MISSING)"
      [] format = <<"%s", "%s">> /\ a = <<"a thing">> -> "a thing%!s(MISSING)"

\* the results after a step are the results before it and one more entry
Appended(severity, message) ==
    /\ ResponseResults' # None
    /\ ResponseResults'[1] =
          Entries(ResponseResults) \o <<[severity |-> severity, message |-> message]>>

\* C3: each Fatal, Warning, Normal or Normalf call appends exactly one entry,
\* with the call's severity and message, after the entries already there,
\* which it leaves as they were; so N calls add N entries in call order.
C3_ResultsAppendInCallOrder ==
    [][/\ \A err \in GoErrors :
            /\ Fatal(err) => Appended("SEVERITY_FATAL", err.s)
            /\ Warning(err) => Appended("SEVERITY_WARNING", err.s)
       /\ \A message \in Messages :
            Normal(message) => Appended("SEVERITY_NORMAL", message)
       /\ \A format \in Formats, a \in FormatArgs :
            Normalf(format, a) => Appended("SEVERITY_NORMAL", Formatted(format, a))
       /\ (last'.op \in {"Fatal", "Warning", "Normal", "Normalf"} /\ calls' = calls + 1)
            => Len(Entries(ResponseResults')) = Len(Entries(ResponseResults)) + 1
      ]_vars

\* two appends of different severities, the first on an absent results list
C3_Witness ==
    /\ prev.op = "Fatal"
    /\ last.op = "Normalf"
    /\ ResponseResults # None
    /\ Len(ResponseResults[1]) = 2
    /\ ResponseResults[1][1].severity = "SEVERITY_FATAL"
    /\ ResponseResults[1][2] = [severity |-> "SEVERITY_NORMAL", message |-> "did a thing"]

-----------------------------------------------------------------------------
(* C4 *)

\* key k of map before is a key of map after
Present(before, after, k) == k \in DOMAIN Entries(after)

\* key k of map before has in map after the value it had
SameValue(before, after, k) == Entries(after)[k] = Entries(before)[k]

WroteContextKey(k) == \E v \in Values : SetContextKey(k, v)

WroteResource(k) ==
    /\ last'.op = "SetDesiredComposedResources"
    /\ \E c \in DCDCalls :
          k \in DOMAIN c.dcds /\ SetDesiredComposedResources(c.dcds, c.order)

WroteExtraResource(k) ==
    \/ /\ last'.op = "RequestExtraResourceByName"
       /\ \E name \in ResourceNames, gvk \in GVKs : RequestExtraResourceByName(k, name, gvk)
    \/ /\ last'.op = "RequestExtraResourceByLabels"
       /\ \E labels \in LabelSets, gvk \in GVKs :
             RequestExtraResourceByLabels(k, labels, gvk)

\* C4: across every call, an entry of context.fields, desired.resources or
\* requirements.extraResources stays present with its value unless the call
\* writes that key in that container, and a container that exists is not
\* replaced by an absent one; SetContextKey(key, v) leaves key mapped to v and
\* adds no other key, so two distinct keys are both present afterwards and
\* the same key twice keeps the size of the map.
C4_EntriesKeptUnlessOverwritten ==
    [][/\ \A k \in DOMAIN Entries(ResponseFields) :
            /\ Present(ResponseFields, ResponseFields', k)
            /\ SameValue(ResponseFields, ResponseFields', k) \/ WroteContextKey(k)
       /\ \A k \in DOMAIN Entries(ResponseResources) :
            /\ Present(ResponseResources, ResponseResources', k)
            /\ SameValue(ResponseResources, ResponseResources', k) \/ WroteResource(k)
       /\ \A k \in DOMAIN Entries(ResponseExtraResources) :
            /\ Present(ResponseExtraResources, ResponseExtraResources', k)
            /\ SameValue(ResponseExtraResources, ResponseExtraResources', k)
                  \/ WroteExtraResource(k)
       /\ ResponseFields # None => ResponseFields' # None
       /\ ResponseResources # None => ResponseResources' # None
       /\ ResponseExtraResources # None => ResponseExtraResources' # None
       /\ \A key \in Keys, v \in Values :
            (last'.op = "SetContextKey" /\ SetContextKey(key, v))
            => /\ DOMAIN Entries(ResponseFields') = DOMAIN Entries(ResponseFields) \cup {key}
               /\ Entries(ResponseFields')[key] = v
      ]_vars

\* two SetContextKey calls with distinct keys on a response without context
C4_Witness ==
    /\ req.context = NilAddr
    /\ prev.op = "SetContextKey" /\ last.op = "SetContextKey"
    /\ DOMAIN Entries(ResponseFields) = {"k1", "k2"}

-----------------------------------------------------------------------------
(* C5 *)

\* the v1beta1.Resource a DesiredComposed is written as
Converted(dcd) ==
    [resource |-> AsStruct(dcd.Resource).s,
     connectionDetails |-> None,
     ready |-> CASE dcd.Ready = "True" -> "READY_TRUE"
                 [] dcd.Ready = "False" -> "READY_FALSE"
                 [] dcd.Ready = "Unspecified" -> "READY_UNSPECIFIED"]

Unserializable(dcd) == AsStruct(dcd.Resource).err # NoErr

\* name has after the step the entry, or the absence, it had before
SameEntry(name) ==
    /\ name \in DOMAIN Entries(ResponseResources')
          <=> name \in DOMAIN Entries(ResponseResources)
    /\ name \in DOMAIN Entries(ResponseResources)
          => Entries(ResponseResources')[name] = Entries(ResponseResources)[name]

\* C5: SetDesiredComposedResources visits the entries of its input in some
\* order.  With a failing entry it returns that entry's error; the entries
\* visited before the first failing one hold their converted resources, and
\* the failing entry, the entries after it and the names not in the input
\* are as they were before the call.  With no failing entry it returns no
\* error and every input name holds its converted resource.
C5_FailsFastAtFirstFailingEntry ==
    [][(last'.op = "SetDesiredComposedResources" /\ calls' = calls + 1) =>
       \A c \in DCDCalls :
          SetDesiredComposedResources(c.dcds, c.order)
          => LET dcds == c.dcds
                 order == c.order
                 failing == {i \in 1..Len(order) : Unserializable(dcds[order[i]])}
                 first == IF failing = {} THEN Len(order) + 1
                          ELSE CHOOSE i \in failing : \A j \in failing : i <= j
             IN /\ last'.err = IF failing = {} THEN NoErr
                                ELSE AsStruct(dcds[order[first]].Resource).err
                /\ failing # {} <=> last'.err # NoErr
                /\ ResponseResources' # None
                /\ \A i \in 1..Len(order) :
                      IF i < first
                      THEN /\ order[i] \in DOMAIN ResponseResources'[1]
                           /\ ResponseResources'[1][order[i]] = Converted(dcds[order[i]])
                      ELSE SameEntry(order[i])
                /\ \A name \in Names \ DOMAIN dcds : SameEntry(name)
      ]_vars

\* the call failed after it had written an entry: the response had no
\* desired state before this, its first, call
C5_Witness ==
    /\ last.op = "SetDesiredComposedResources"
    /\ last.err # NoErr
    /\ calls = 1
    /\ req.desired = NilAddr
    /\ Cardinality(DOMAIN Entries(ResponseResources)) = 1

-----------------------------------------------------------------------------
(* C6 *)

\* C6: SetDesiredCompositeResource with a body that cannot be serialized
\* returns an error and leaves the desired composite as it was; with a body
\* that can, it returns no error and the composite holds the serialized body
\* and the supplied connection details; desired.resources is unchanged.
C6_CompositeKeptOnConversionError ==
    [][(last'.op = "SetDesiredCompositeResource" /\ calls' = calls + 1) =>
       \A xr \in Composites :
          SetDesiredCompositeResource(xr)
          => /\ IF AsStruct(xr.Resource).err # NoErr
                THEN /\ last'.err # NoErr
                     /\ ResponseComposite' = ResponseComposite
                ELSE /\ last'.err = NoErr
                     /\ ResponseComposite' # None
                     /\ ResponseComposite'[1].resource = AsStruct(xr.Resource).s
                     /\ ResponseComposite'[1].connectionDetails = Some(xr.ConnectionDetails)
             /\ ResponseResources' = ResponseResources
      ]_vars

-----------------------------------------------------------------------------
(* C7 *)

\* the State, or the Struct, a pointer leads to; nil leads to nothing
Deref(heap, addr) == IF addr = NilAddr THEN None ELSE Some(heap[addr])

\* C7: To(R, T) returns a response with R's tag (the empty tag when R has no
\* meta), R's desired state, R's context, a ttl that reads back as T, and
\* neither requirements nor results.
C7_ToEchoesRequest ==
    [][\A ttl \in TTLs :
          To(ttl)
          => /\ rsp' # None
             /\ rsp'[1].meta.tag = (IF req.meta = None THEN "" ELSE req.meta[1].tag)
             /\ Deref(states', rsp'[1].desired) = Deref(states, req.desired)
             /\ Deref(structs', rsp'[1].context) = Deref(structs, req.context)
             /\ AsDuration(rsp'[1].meta.ttl) = ttl
             /\ rsp'[1].meta.ttl.Nanos \in -(NanosPerSecond - 1)..(NanosPerSecond - 1)
             /\ rsp'[1].meta.ttl.Seconds * rsp'[1].meta.ttl.Nanos >= 0
             /\ rsp'[1].requirements = None
             /\ rsp'[1].results = None
      ]_vars

\* To has run on a request with no meta but with a context, for a negative ttl
C7_Witness ==
    /\ last.op = "To"
    /\ req.meta = None
    /\ req.desired = NilAddr
    /\ RequestFields # None
    /\ ResponseFields = RequestFields
    /\ rsp[1].meta.ttl = [Seconds |-> -1, Nanos |-> -500000000]

-----------------------------------------------------------------------------
(* C8 *)

\* the apiVersion of the kinds of the model
APIVersionOf(gvk) ==
    CASE gvk.Group = "example.org" /\ gvk.Version = "v1" -> "example.org/v1"
      [] gvk.Group = "" /\ gvk.Version = "v1" -> "v1"

\* after the step id maps to sel, no other id is added, and every other id
\* keeps its selector
Registered(id, sel) ==
    /\ ResponseExtraResources' # None
    /\ DOMAIN ResponseExtraResources'[1] = DOMAIN Entries(ResponseExtraResources) \cup {id}
    /\ ResponseExtraResources'[1][id] = sel
    /\ \A other \in DOMAIN Entries(ResponseExtraResources) \ {id} :
          ResponseExtraResources'[1][other] = Entries(ResponseExtraResources)[other]

\* C8: a successful RequestExtraResourceByName or RequestExtraResourceByLabels
\* call with id i leaves extraResources[i] with the apiVersion and kind of the
\* call's GVK and only the call's match variant, whatever was registered
\* under i before; the number of ids is unchanged if i was present and grows
\* by one otherwise; every other id keeps its selector.
C8_RequestReplacesSelector ==
    [][/\ \A id \in IDs, gvk \in GVKs, name \in ResourceNames :
            (/\ last'.op = "RequestExtraResourceByName" /\ last'.err = NoErr
             /\ RequestExtraResourceByName(id, name, gvk))
            => Registered(id, [apiVersion |-> APIVersionOf(gvk), kind |-> gvk.Kind,
                               matchName |-> Some(name), matchLabels |-> None])
       /\ \A id \in IDs, gvk \in GVKs, labels \in LabelSets :
            (/\ last'.op = "RequestExtraResourceByLabels" /\ last'.err = NoErr
             /\ RequestExtraResourceByLabels(id, labels, gvk))
            => Registered(id, [apiVersion |-> APIVersionOf(gvk), kind |-> gvk.Kind,
                               matchName |-> None,
                               matchLabels |-> Some([labels |-> labels])])
      ]_vars

\* a ByLabels call has replaced the selector a ByName call registered
C8_Witness ==
    /\ prev = [op |-> "RequestExtraResourceByName", err |-> NoErr]
    /\ last = [op |-> "RequestExtraResourceByLabels", err |-> NoErr]
    /\ Cardinality(DOMAIN Entries(ResponseExtraResources)) = 1
    /\ \A id \in DOMAIN Entries(ResponseExtraResources) :
          /\ Entries(ResponseExtraResources)[id].matchName = None
          /\ Entries(ResponseExtraResources)[id].matchLabels # None

-----------------------------------------------------------------------------
(* C9 *)

AllDone == \A p \in Procs : pc[p] = "done"

\* C9: when the two SetContextKey calls run one after the other, the
\* runtime does not abort and both calls' keys are in context.fields with
\* the calls' values (the later value for a key both calls set).
C9_SerializedCallsKeepBothKeys ==
    ~overlap =>
        /\ ~crashed
        /\ AllDone =>
              /\ ResponseFields # None
              /\ \A p \in Procs : loc[p].key \in DOMAIN ResponseFields[1]
              /\ \A p \in Procs :
                    \/ ResponseFields[1][loc[p].key] = loc[p].v
                    \/ \E q \in Procs \ {p} : loc[q].key = loc[p].key

\* the interleaving that loses a key: both calls found the fields absent,
\* each allocated its own map, and the map the response ends with holds only
\* one of the two distinct keys
C9_Witness ==
    /\ AllDone /\ ~crashed /\ overlap
    /\ loc[1].key # loc[2].key
    /\ loc[1].isNil /\ loc[2].isNil
    /\ loc[1].ptr # loc[2].ptr
    /\ Cardinality(DOMAIN Entries(ResponseFields)) = 1

-----------------------------------------------------------------------------
(* C10 *)

\* C10: no call on a response built by To changes what the request holds:
\* its context fields, its desired composite and its desired resources.
C10_RequestUnchanged ==
    [][/\ RequestFields' = RequestFields
       /\ RequestComposite' = RequestComposite
       /\ RequestResources' = RequestResources
      ]_vars

====
